---------------------------- MODULE Spec2Model ----------------------------
(***************************************************************************)
(* Model of src/imdb_visualization.py: a Streamlit script that loads a     *)
(* movie table (SQL preferred, CSV fallback), cleans three text columns    *)
(* (rating, votes, duration), optionally runs an ad-hoc SQL query, filters *)
(* the table and draws charts.                                             *)
(*                                                                         *)
(* Text is a sequence of one-character strings.  The character written     *)
(* "sup2" stands for U+00B2 (superscript two): str.isdigit() accepts it,   *)
(* int() and float() reject it.                                            *)
(***************************************************************************)
EXTENDS Integers, Sequences, FiniteSets

VARIABLES
    pc,        \* position of the script, or of the function under study
    engine,    \* what get_engine() does in this process: "none", "ok", "raises"
    csv,       \* the fallback file: "absent", "ok", "unreadable"
    cache,     \* st.cache_data's entry for load_data
    df,        \* the data frame df: a sequence of rows
    msgs,      \* st.info / st.warning / st.error / st.success calls of this run
    steps,     \* the calls and blocks this run has entered, in order
    widgets,   \* the four filter widgets' values
    filtered,  \* the data frame named filtered
    charts,    \* what the chart block computed
    arg,       \* argument of the cleaning function under study
    ret        \* its result

vars == <<pc, engine, csv, cache, df, msgs, steps, widgets, filtered, charts, arg, ret>>

(***************************************************************************)
(* Bounds of the model.                                                    *)
(***************************************************************************)
MaxVotesLen == 4

MaxDurationLen == 5

MaxRows == 2

(***************************************************************************)
(* Characters and text.                                                    *)
(***************************************************************************)
Digits == {"0", "1", "2", "3", "4", "5", "6", "7", "8", "9"}

DigitVal(c) ==
    CASE c = "0" -> 0 [] c = "1" -> 1 [] c = "2" -> 2 [] c = "3" -> 3
      [] c = "4" -> 4 [] c = "5" -> 5 [] c = "6" -> 6 [] c = "7" -> 7
      [] c = "8" -> 8 [] c = "9" -> 9

\* str.isdigit() of one character: the decimal digits and the superscripts.
isdigit(c) == c \in Digits \cup {"sup2"}

\* str.isspace() of one character.
isspace(c) == c = " "

\* str.lower() of one character, on the letters the model uses.
LowerChar(c) ==
    CASE c = "A" -> "a" [] c = "D" -> "d" [] c = "E" -> "e" [] c = "F" -> "f"
      [] c = "I" -> "i" [] c = "K" -> "k" [] c = "M" -> "m" [] c = "N" -> "n"
      [] c = "T" -> "t" [] c = "W" -> "w" [] c = "Y" -> "y"
      [] OTHER -> c

Lower(s) == [i \in 1..Len(s) |-> LowerChar(s[i])]

Front(s) == SubSeq(s, 1, Len(s) - 1)

Last(s) == s[Len(s)]

RECURSIVE LStrip(_)
LStrip(s) == IF s # <<>> /\ isspace(Head(s)) THEN LStrip(Tail(s)) ELSE s

RECURSIVE RStrip(_)
RStrip(s) == IF s # <<>> /\ isspace(Last(s)) THEN RStrip(Front(s)) ELSE s

\* str.strip()
Strip(s) == RStrip(LStrip(s))

\* str.replace(",", "")
NoCommas(s) == SelectSeq(s, LAMBDA c : c # ",")

\* str.endswith(c)
EndsWith(s, c) == s # <<>> /\ Last(s) = c

\* A missing cell (NaN / None) and a text cell.
NA == [isna |-> TRUE, text |-> <<>>]

Str(s) == [isna |-> FALSE, text |-> s]

\* A value returned, and an exception raised.
Ret(v) == [exc |-> "none", val |-> v]

Raise(e) == [exc |-> e, val |-> 0]

\* Python's None (NaN once stored in a column), and a value that is not None.
None == [none |-> TRUE, val |-> 0]

Some(n) == [none |-> FALSE, val |-> n]

(***************************************************************************)
(* IEEE-754 binary64, as far as float(), float * int and int(float) need   *)
(* it.  A finite nonzero double is [kind |-> "fin", neg, mant, exp]: mant  *)
(* is its 53 significand bits, most significant (a 1) first, and exp the   *)
(* binary exponent of that first bit.                                      *)
(***************************************************************************)
MantBits == 53

\* The arithmetic below works on limbs of LimbBits bits, so that no
\* intermediate value leaves the 32-bit integers of the model checker.
LimbBits == 10

LimbBase == 1024

RECURSIVE Pow2(_)
Pow2(n) == IF n = 0 THEN 1 ELSE 2 * Pow2(n - 1)

RECURSIVE Pow10(_)
Pow10(k) == IF k = 0 THEN 1 ELSE 10 * Pow10(k - 1)

\* The number of bits of n (0 for 0), n < 2^31.
BitLen(n) == IF n = 0 THEN 0 ELSE CHOOSE w \in 1..31 : Pow2(w - 1) <= n /\ n \div 2 < Pow2(w - 1)

\* n on exactly w bits, most significant first.
FixedBits(n, w) == [i \in 1..w |-> (n \div Pow2(w - i)) % 2]

NatToBits(n) == FixedBits(n, BitLen(n))

RECURSIVE BitsToNat(_)
BitsToNat(b) == IF b = <<>> THEN 0 ELSE 2 * BitsToNat(Front(b)) + Last(b)

Zeros(n) == [i \in 1..n |-> 0]

\* The limbs (most significant first) as one bit string.
LimbsToBits(l) ==
    [i \in 1..(LimbBits * Len(l)) |->
        (l[((i - 1) \div LimbBits) + 1] \div Pow2(LimbBits - 1 - ((i - 1) % LimbBits))) % 2]

\* A bit string, zero-extended on the left to whole limbs, as limbs.
BitsToLimbs(b) ==
    LET n   == (Len(b) + LimbBits - 1) \div LimbBits
        pad == Zeros(n * LimbBits - Len(b)) \o b
    IN  [j \in 1..n |-> BitsToNat(SubSeq(pad, (j - 1) * LimbBits + 1, j * LimbBits))]

StripZeros(b) ==
    IF \A i \in 1..Len(b) : b[i] = 0 THEN <<>>
    ELSE LET first == CHOOSE i \in 1..Len(b) : b[i] = 1 /\ \A j \in 1..(i - 1) : b[j] = 0
         IN  SubSeq(b, first, Len(b))

\* b + 1 on a bit string (the result is one bit longer when b is all ones).
IncBits(b) ==
    IF \A i \in 1..Len(b) : b[i] = 1 THEN <<1>> \o Zeros(Len(b))
    ELSE LET z == CHOOSE i \in 1..Len(b) : b[i] = 0 /\ \A j \in (i + 1)..Len(b) : b[j] = 1
         IN  [i \in 1..Len(b) |-> IF i < z THEN b[i] ELSE IF i = z THEN 1 ELSE 0]

\* Round-half-to-even of an exact significand (first bit 1, any length, with
\* `sticky` telling whether nonzero bits follow it) to MantBits bits.
\* `exp` is the exponent of the first bit.
RoundToDouble(neg, bits, sticky, exp) ==
    IF Len(bits) <= MantBits
    THEN [kind |-> "fin", neg |-> neg,
          mant |-> bits \o Zeros(MantBits - Len(bits)), exp |-> exp]
    ELSE LET keep  == SubSeq(bits, 1, MantBits)
             guard == bits[MantBits + 1]
             rest  == sticky \/ \E i \in (MantBits + 2)..Len(bits) : bits[i] = 1
             up    == guard = 1 /\ (rest \/ keep[MantBits] = 1)
             inc   == IncBits(keep)
         IN  IF ~up THEN [kind |-> "fin", neg |-> neg, mant |-> keep, exp |-> exp]
             ELSE IF Len(inc) > MantBits
             THEN [kind |-> "fin", neg |-> neg,
                   mant |-> SubSeq(inc, 1, MantBits), exp |-> exp + 1]
             ELSE [kind |-> "fin", neg |-> neg, mant |-> inc, exp |-> exp]

\* The first n limbs of the binary expansion of r / d (0 <= r < d <= 10^6),
\* and the remainder left after them.
RECURSIVE FracLimbs(_, _, _)
FracLimbs(r, d, n) ==
    IF n = 0 THEN [limbs |-> <<>>, rem |-> r]
    ELSE LET t  == r * LimbBase
             fx == FracLimbs(t % d, d, n - 1)
         IN  [limbs |-> <<t \div d>> \o fx.limbs, rem |-> fx.rem]

\* Limbs of fraction taken: the first 1 bit of r / d comes within 20 bits
\* (d <= 10^6), and MantBits + 1 bits are needed from it on.
FracLimbCount == 8

\* The double nearest to m / 10^k (m < 2^31, k <= 6).
DecimalToDouble(neg, m, k) ==
    LET d   == Pow10(k)
        ib  == NatToBits(m \div d)
        fx  == FracLimbs(m % d, d, FracLimbCount)
        all == ib \o LimbsToBits(fx.limbs)
        sig == StripZeros(all)
    IN  IF m = 0 THEN [kind |-> "zero", neg |-> neg, mant |-> <<>>, exp |-> 0]
        ELSE RoundToDouble(neg, sig, fx.rem # 0, Len(ib) - 1 - (Len(all) - Len(sig)))

\* The limbs l (most significant first) times c, plus carry: the limbs of the
\* product, the carry out first.
RECURSIVE MulLimbs(_, _, _)
MulLimbs(l, c, carry) ==
    IF l = <<>> THEN <<carry>>
    ELSE LET t == Last(l) * c + carry
         IN  Append(MulLimbs(Front(l), c, t \div LimbBase), t % LimbBase)

\* The product of the MantBits-bit significand b and c (c <= 10^6), exactly.
MulBits(b, c) ==
    LET p == MulLimbs(BitsToLimbs(b), c, 0)
    IN  StripZeros(NatToBits(Head(p)) \o LimbsToBits(Tail(p)))

\* x * c in double arithmetic, c a positive integer that is itself a double.
FMul(x, c) ==
    IF x.kind # "fin" THEN x
    ELSE LET p == MulBits(x.mant, c)
         IN  RoundToDouble(x.neg, p, FALSE, x.exp + (Len(p) - MantBits))

(***************************************************************************)
(* float(str) and int(str) of Python, on text without exponent notation    *)
(* (the model's texts hold neither "e" nor "E" next to digits).            *)
(***************************************************************************)
RECURSIVE DigitsToNat(_)
DigitsToNat(s) == IF s = <<>> THEN 0 ELSE 10 * DigitsToNat(Front(s)) + DigitVal(Last(s))

\* A plain decimal number: an optional sign, digits, at most one point, at
\* least one digit.  Its value is DecSign * DecDigits / 10^DecScale.
IsDecimalText(t) ==
    LET body == IF t # <<>> /\ Head(t) \in {"+", "-"} THEN Tail(t) ELSE t
    IN  /\ \A i \in 1..Len(body) : body[i] \in Digits \cup {"."}
        /\ Cardinality({i \in 1..Len(body) : body[i] = "."}) <= 1
        /\ \E i \in 1..Len(body) : body[i] \in Digits

DecSign(t) == IF t # <<>> /\ Head(t) = "-" THEN -1 ELSE 1

DecDigits(t) == DigitsToNat(SelectSeq(t, LAMBDA c : c \in Digits))

DecScale(t) ==
    IF \E i \in 1..Len(t) : t[i] = "."
    THEN Len(t) - (CHOOSE i \in 1..Len(t) : t[i] = ".")
    ELSE 0

\* A run of decimal digits, single underscores allowed between two digits.
IsDigitPart(t) ==
    /\ t # <<>>
    /\ \A i \in 1..Len(t) :
          \/ t[i] \in Digits
          \/ /\ t[i] = "_"
             /\ 1 < i /\ i < Len(t)
             /\ t[i - 1] \in Digits /\ t[i + 1] \in Digits

OnlyDigits(t) == SelectSeq(t, LAMBDA c : c \in Digits)

\* float(s): the double, or ValueError.
float(s) ==
    LET t    == Strip(s)
        sgn  == t # <<>> /\ Head(t) \in {"+", "-"}
        neg  == t # <<>> /\ Head(t) = "-"
        body == IF sgn THEN Tail(t) ELSE t
        low  == Lower(body)
        dots == {i \in 1..Len(body) : body[i] = "."}
        dot  == CHOOSE i \in dots : TRUE
        ip   == IF dots = {} THEN body ELSE SubSeq(body, 1, dot - 1)
        fp   == IF dots = {} THEN <<>> ELSE SubSeq(body, dot + 1, Len(body))
        ok   == /\ Cardinality(dots) <= 1
                /\ ip # <<>> \/ fp # <<>>
                /\ ip = <<>> \/ IsDigitPart(ip)
                /\ fp = <<>> \/ IsDigitPart(fp)
    IN  IF low \in {<<"i", "n", "f">>, <<"i", "n", "f", "i", "n", "i", "t", "y">>}
        THEN Ret([kind |-> "inf", neg |-> neg, mant |-> <<>>, exp |-> 0])
        ELSE IF low = <<"n", "a", "n">>
        THEN Ret([kind |-> "nan", neg |-> neg, mant |-> <<>>, exp |-> 0])
        ELSE IF ok
        THEN Ret(DecimalToDouble(neg, DigitsToNat(OnlyDigits(ip \o fp)),
                                 Len(OnlyDigits(fp))))
        ELSE Raise("ValueError")

\* int(x) of a double x: truncation toward zero; nan and inf raise.
IntOfDouble(x) ==
    CASE x.kind = "nan"  -> Raise("ValueError")
      [] x.kind = "inf"  -> Raise("OverflowError")
      [] x.kind = "zero" -> Ret(0)
      [] OTHER ->
           LET n == IF x.exp < 0 THEN 0
                    ELSE BitsToNat(SubSeq(x.mant, 1, x.exp + 1))
           IN  Ret(IF x.neg THEN -n ELSE n)

\* int(s) of a text made of str.isdigit() characters.
int(s) ==
    IF \A i \in 1..Len(s) : s[i] \in Digits
    THEN Ret(DigitsToNat(s))
    ELSE Raise("ValueError")

(***************************************************************************)
(* votes_to_int (lines 65-78).                                             *)
(***************************************************************************)
\* int(float(t) * c), as lines 71, 73 and 74 compute it (c = 1: no product).
ScaledInt(t, c) ==
    LET f == float(t)
    IN  IF f.exc # "none" THEN f
        ELSE IntOfDouble(IF c = 1 THEN f.val ELSE FMul(f.val, c))

\* The try block, lines 70-74.
votes_primary(s) ==
    IF EndsWith(s, "K") \/ EndsWith(s, "k") THEN ScaledInt(Front(s), 1000)
    ELSE IF EndsWith(s, "M") \/ EndsWith(s, "m") THEN ScaledInt(Front(s), 1000000)
    ELSE ScaledInt(s, 1)

\* The except block, lines 75-78; int(digits) may raise out of the handler.
votes_fallback(s) ==
    LET digits == SelectSeq(s, isdigit)
    IN  IF digits # <<>> THEN int(digits) ELSE Ret(0)

votes_to_int(v) ==
    IF v.isna THEN Ret(0)
    ELSE LET s == Strip(NoCommas(v.text))
             p == votes_primary(s)
         IN  IF p.exc = "none" THEN p ELSE votes_fallback(s)

(***************************************************************************)
(* Shared pieces of the specifications.                                    *)
(***************************************************************************)
\* Every text over `alphabet` of at most n characters.
Texts(alphabet, n) == UNION {[1..k -> alphabet] : k \in 0..n}

NoWidgets == [genre |-> <<>>, min_rating |-> 0, min_votes |-> 0, duration |-> "All"]

NoCharts == [top_rated |-> <<>>, genre_counts |-> {}, scatter |-> <<>>]

NoCache == [none |-> TRUE, df |-> <<>>, msgs |-> <<>>]

\* The session variables, for a specification that studies one function.
SessionIdle ==
    /\ engine = "none"
    /\ csv = "absent"
    /\ cache = NoCache
    /\ df = <<>>
    /\ msgs = <<>>
    /\ steps = <<>>
    /\ widgets = NoWidgets
    /\ filtered = <<>>
    /\ charts = NoCharts

SessionVars == <<engine, csv, cache, df, msgs, steps, widgets, filtered, charts>>

(***************************************************************************)
(* SpecVotes: votes_to_int applied to one cell of the votes column, as     *)
(* line 80 applies it to every cell.                                       *)
(***************************************************************************)
VoteAlphabet == {"1", "4", ".", ",", "-", "K", "M", " ", "a", "sup2"}

\* Vote texts of the specification's scenarios and of IMDb's usual shapes.
VoteExamples ==
    { <<"1", "2", ".", "5", "K">>, <<"1", ".", "2", "M">>,
      <<"1", ",", "2", "0", "0">>, <<"3", "K">>, <<"N", "/", "A">>,
      <<"a", "b", "c">>, <<"2", ".", "0", "1", "K">>, <<"3", "2", ".", "3", "k">>,
      <<"8", ".", "2", "m">>, <<"0", ".", "1", "8", "7", "5", "K">>,
      <<"N", "a", "N">>, <<"i", "n", "f">>, <<"+", "7", "_", "0">>,
      <<"1", "2", "sup2">>, <<"1", ",", "2", "3", "4", ",", "5", "6", "7">> }

VoteCells == {NA} \cup {Str(s) : s \in Texts(VoteAlphabet, MaxVotesLen) \cup VoteExamples}

InitVotes ==
    /\ SessionIdle
    /\ pc = "votes_call"
    /\ arg \in VoteCells
    /\ ret = Ret(0)

CallVotes ==
    /\ pc = "votes_call"
    /\ ret' = votes_to_int(arg)
    /\ pc' = "votes_done"
    /\ UNCHANGED <<arg, SessionVars>>

NextVotes == CallVotes

SpecVotes == InitVotes /\ [][NextVotes]_vars

(***************************************************************************)
(* Claims about votes_to_int, checked under SpecVotes.                     *)
(***************************************************************************)
\* The text line 68 leaves: commas removed, then stripped.
VotesText == Strip(NoCommas(arg.text))

\* C2: for every raw votes value, votes_to_int returns a defined integer
\* that is >= 0.
C2_VotesDefinedNonNegative ==
    pc = "votes_done" => ret.exc = "none" /\ ret.val >= 0

\* n / d (n >= 0, d > 0) rounded to the nearest integer, ties to even.
RoundDiv(n, d) ==
    LET q == n \div d
        r == n % d
    IN  IF 2 * r > d \/ (2 * r = d /\ q % 2 = 1) THEN q + 1 ELSE q

\* round(prefix * c) of the decimal text t.
RoundScaled(t, c) == DecSign(t) * RoundDiv(DecDigits(t) * c, Pow10(DecScale(t)))

SuffixScale(c) ==
    IF c \in {"K", "k"} THEN 1000 ELSE IF c \in {"M", "m"} THEN 1000000 ELSE 1

\* C4: a votes text that ends in K/k (resp. M/m) after a valid decimal
\* prefix yields round(prefix * 1000) (resp. round(prefix * 1000000)).
C4_SuffixIsRoundedProduct ==
    (/\ pc = "votes_done"
     /\ ~arg.isna
     /\ VotesText # <<>>
     /\ Last(VotesText) \in {"K", "k", "M", "m"}
     /\ IsDecimalText(Strip(Front(VotesText))))
    => ret = Ret(RoundScaled(Strip(Front(VotesText)), SuffixScale(Last(VotesText))))

\* The integer spelled by the decimal digits of t, 0 when it has none.
DigitsOnlyValue(t) == DigitsToNat(SelectSeq(t, LAMBDA c : c \in Digits))

\* C9: when the primary parse fails, votes_to_int returns the integer
\* formed by the text's digit characters in order, 0 when none remains or
\* the value is missing.
C9_FallbackIsDigitsOnly ==
    /\ (pc = "votes_done" /\ arg.isna) => ret = Ret(0)
    /\ (pc = "votes_done" /\ ~arg.isna /\ votes_primary(VotesText).exc # "none")
          => ret = Ret(DigitsOnlyValue(arg.text))

\* What does hold of the fallback: C9's statement on every text without a
\* superscript digit.
FallbackIsDigitsOnlyWithoutSuperscripts ==
    (/\ pc = "votes_done"
     /\ ~arg.isna
     /\ \A i \in 1..Len(arg.text) : arg.text[i] # "sup2"
     /\ votes_primary(VotesText).exc # "none")
    => ret = Ret(DigitsOnlyValue(arg.text))

(***************************************************************************)
(* duration_to_minutes (lines 83-103).                                     *)
(***************************************************************************)
\* "c" in s
Contains(s, c) == \E i \in 1..Len(s) : s[i] = c

\* The index after the longest run of \d from i on, and after the \s* from j on.
RECURSIVE DigitRunEnd(_, _)
DigitRunEnd(s, i) == IF i <= Len(s) /\ s[i] \in Digits THEN DigitRunEnd(s, i + 1) ELSE i

RECURSIVE SpaceRunEnd(_, _)
SpaceRunEnd(s, j) == IF j <= Len(s) /\ isspace(s[j]) THEN SpaceRunEnd(s, j + 1) ELSE j

\* Whether (\d+)\s*u matches at position i: \d+ is greedy, and giving digits
\* back never helps, since a digit is neither \s nor u.
MatchesAt(s, i, u) ==
    /\ s[i] \in Digits
    /\ LET l == SpaceRunEnd(s, DigitRunEnd(s, i))
       IN  l <= Len(s) /\ s[l] = u

\* re.search(r"(\d+)\s*u", s) from position i on: group 1 of the leftmost
\* match, or None.
RECURSIVE re_search(_, _, _)
re_search(s, i, u) ==
    IF i > Len(s) THEN None
    ELSE IF MatchesAt(s, i, u) THEN Some(SubSeq(s, i, DigitRunEnd(s, i) - 1))
    ELSE re_search(s, i + 1, u)

\* Lines 90-94 and 95-99: the number before the unit, 0 without a match.
UnitNumber(s, u) ==
    IF ~Contains(s, u) THEN 0
    ELSE LET m == re_search(s, 1, u)
         IN  IF m.none THEN 0 ELSE DigitsToNat(m.val)

\* duration_to_minutes without the "else None" of line 101: a text with no
\* positive unit yields 0.
duration_to_minutes_zero(v) ==
    IF v.isna THEN None
    ELSE Some(UnitNumber(v.text, "h") * 60 + UnitNumber(v.text, "m"))

\* Lines 83-103.
duration_to_minutes(v) ==
    IF v.isna THEN None
    ELSE LET total == UnitNumber(v.text, "h") * 60 + UnitNumber(v.text, "m")
         IN  IF total > 0 THEN Some(total) ELSE None

(***************************************************************************)
(* SpecDuration: duration_to_minutes applied to one cell of the duration   *)
(* column, as line 105 applies it to every cell.                           *)
(***************************************************************************)
DurationAlphabet == {"0", "1", "2", "h", "m", " ", "x"}

DurationExamples ==
    { <<"2", "h", " ", "1", "5", "m">>, <<"1", "h">>, <<"4", "5", "m">>,
      <<"g", "a", "r", "b", "a", "g", "e">>, <<"1", "h", " ", "3", "0", "m", "i", "n">>,
      <<"9", "0", " ", "m", "i", "n">>, <<"3", "h", " ", "5", "m">>,
      <<"sup2", "h">> }

DurationCells ==
    {NA} \cup {Str(s) : s \in Texts(DurationAlphabet, MaxDurationLen) \cup DurationExamples}

InitDuration ==
    /\ SessionIdle
    /\ pc = "duration_call"
    /\ arg \in DurationCells
    /\ ret = None

CallDuration ==
    /\ pc = "duration_call"
    /\ ret' = duration_to_minutes(arg)
    /\ pc' = "duration_done"
    /\ UNCHANGED <<arg, SessionVars>>

NextDuration == CallDuration

SpecDuration == InitDuration /\ [][NextDuration]_vars

(***************************************************************************)
(* Claim about duration_to_minutes, checked under SpecDuration.            *)
(***************************************************************************)
\* The "<N>u" tokens of s: digits from i to j, then spaces, then u.
UnitTokens(s, u) ==
    {t \in (1..Len(s)) \X (1..Len(s)) :
        /\ t[1] <= t[2]
        /\ \A k \in t[1]..t[2] : s[k] \in Digits
        /\ \E l \in (t[2] + 1)..Len(s) :
              s[l] = u /\ \A k \in (t[2] + 1)..(l - 1) : s[k] = " "}

\* The number of the first "<N>u" token of s, 0 when s has none.
FirstTokenNumber(s, u) ==
    IF UnitTokens(s, u) = {} THEN 0
    ELSE LET t == CHOOSE t \in UnitTokens(s, u) :
                     \A o \in UnitTokens(s, u) : t[1] <= o[1]
         IN  DigitsToNat(SubSeq(s, t[1], t[2]))

TokenMinutes(s) == FirstTokenNumber(s, "h") * 60 + FirstTokenNumber(s, "m")

\* C5: duration_to_minutes returns hours * 60 + minutes of the first "<N>h"
\* and the first "<N>m" token, each searched independently, and None when
\* that total is 0 or the value is missing; so duration_min is never 0.
\* "2h 15m" = 135, "1h" = 60, "45m" = 45, "" and "garbage" = None.
C5_DurationIsTokenMinutes ==
    pc = "duration_done" =>
        /\ arg.isna => ret = None
        /\ ~arg.isna =>
              ret = IF TokenMinutes(arg.text) > 0 THEN Some(TokenMinutes(arg.text)) ELSE None
        /\ ret.none \/ ret.val > 0
        /\ arg = Str(<<"2", "h", " ", "1", "5", "m">>) => ret = Some(135)
        /\ arg = Str(<<"1", "h">>) => ret = Some(60)
        /\ arg = Str(<<"4", "5", "m">>) => ret = Some(45)
        /\ arg \in {Str(<<>>), Str(<<"g", "a", "r", "b", "a", "g", "e">>)} => ret = None

\* C5's witness: a text with an hour token and a minute token has been
\* converted.
C5_Witness ==
    /\ pc = "duration_done"
    /\ arg = Str(<<"2", "h", " ", "1", "5", "m">>)
    /\ ret = Some(135)

(***************************************************************************)
(* Data cleaning (lines 60-105).  A row of the table holds the cells genre *)
(* rating, votes and duration; the title column is carried along untouched *)
(* and is left out.  Cleaning replaces rating by a number or None, and     *)
(* adds votes_num and duration_min.                                        *)
(***************************************************************************)
\* Ratings are kept in hundredths: "7.9" is 790.  The slider's values
\* (line 141) are tenths: 8.0 is 80.
RatingUnit == 100

SliderUnit == 10

\* pd.to_numeric(..., errors="coerce") of one stripped text with at most two
\* decimals: the number, or None (NaN) for "nan" and for what is no number.
to_numeric(s) ==
    IF IsDecimalText(s) /\ DecScale(s) <= 2
    THEN Some(DecSign(s) * DecDigits(s) * (RatingUnit \div Pow10(DecScale(s))))
    ELSE None

\* Line 62: astype(str) (a missing cell becomes "nan"), strip, "" and "N/A"
\* replaced by None, to_numeric.
clean_rating(c) ==
    LET s == Strip(IF c.isna THEN <<"n", "a", "n">> ELSE c.text)
    IN  IF s = <<>> \/ s = <<"N", "/", "A">> THEN None ELSE to_numeric(s)

\* Whether lines 62-105 raise on this table: votes_to_int can.
CleanRaises(rows) == \E i \in 1..Len(rows) : votes_to_int(rows[i].votes).exc # "none"

clean_row(r) ==
    [genre        |-> r.genre,
     rating       |-> clean_rating(r.rating),
     votes        |-> r.votes,
     duration     |-> r.duration,
     votes_num    |-> votes_to_int(r.votes).val,
     duration_min |-> duration_to_minutes(r.duration)]

clean(rows) == [i \in 1..Len(rows) |-> clean_row(rows[i])]

(***************************************************************************)
(* The filters (lines 150-162), each a boolean mask over the rows of the   *)
(* frame it is given.                                                      *)
(***************************************************************************)
All == <<"A", "l", "l">>

\* Series.fillna(0) of a numeric cell.
FillZero(x) == IF x.none THEN 0 ELSE x.val

\* str.contains(needle, case=False), needle free of regex metacharacters.
contains(hay, needle) ==
    \E i \in 0..(Len(hay) - Len(needle)) :
        SubSeq(Lower(hay), i + 1, i + Len(needle)) = Lower(needle)

\* Lines 151-152.
filter_genre(f, genre_choice) ==
    IF genre_choice # All
    THEN SelectSeq(f, LAMBDA r : contains(IF r.genre.isna THEN <<>> ELSE r.genre.text,
                                          genre_choice))
    ELSE f

\* Line 153 with > for >=: a rating equal to the threshold is dropped.
filter_rating_strict(f, min_rating) ==
    SelectSeq(f, LAMBDA r : FillZero(r.rating) * SliderUnit > min_rating * RatingUnit)

\* Line 153 selecting from df instead of filtered: the genre filter applied
\* before it is lost.
filter_rating_of_df(f, min_rating) ==
    SelectSeq(df, LAMBDA r : FillZero(r.rating) * SliderUnit >= min_rating * RatingUnit)

\* Line 153; min_rating in tenths.
filter_rating(f, min_rating) ==
    SelectSeq(f, LAMBDA r : FillZero(r.rating) * SliderUnit >= min_rating * RatingUnit)

\* Line 154.
filter_votes(f, min_votes) == SelectSeq(f, LAMBDA r : r.votes_num >= min_votes)

\* Lines 156-162 with >= 180 in the last bucket: a 180-minute record is in
\* two buckets.
filter_duration_overlap(f, duration_choice) ==
    IF duration_choice # "All"
    THEN IF duration_choice = "< 2 hrs"
         THEN SelectSeq(f, LAMBDA r : ~r.duration_min.none /\ r.duration_min.val < 120)
         ELSE IF duration_choice = "2-3 hrs"
         THEN SelectSeq(f, LAMBDA r : /\ ~r.duration_min.none
                                      /\ r.duration_min.val >= 120
                                      /\ r.duration_min.val <= 180)
         ELSE SelectSeq(f, LAMBDA r : ~r.duration_min.none /\ r.duration_min.val >= 180)
    ELSE f

\* Lines 156-162.
filter_duration(f, duration_choice) ==
    IF duration_choice # "All"
    THEN IF duration_choice = "< 2 hrs"
         THEN SelectSeq(f, LAMBDA r : ~r.duration_min.none /\ r.duration_min.val < 120)
         ELSE IF duration_choice = "2-3 hrs"
         THEN SelectSeq(f, LAMBDA r : /\ ~r.duration_min.none
                                      /\ r.duration_min.val >= 120
                                      /\ r.duration_min.val <= 180)
         ELSE SelectSeq(f, LAMBDA r : ~r.duration_min.none /\ r.duration_min.val > 180)
    ELSE f

\* Lines 150-162, in the script's order.
apply_filters(d, w) ==
    filter_duration(
        filter_votes(filter_rating(filter_genre(d, w.genre), w.min_rating), w.min_votes),
        w.duration)

(***************************************************************************)
(* The chart block (lines 167-196).                                        *)
(***************************************************************************)
TopN == 10

\* The index of the first largest rating of a non-empty sequence of rows.
FirstLargest(rows) ==
    CHOOSE i \in 1..Len(rows) :
        /\ \A j \in 1..Len(rows) : rows[j].rating.val <= rows[i].rating.val
        /\ \A j \in 1..(i - 1) : rows[j].rating.val < rows[i].rating.val

\* DataFrame.nlargest(n, "rating"): the n rows of largest rating, largest
\* first, ties in the frame's order.
RECURSIVE nlargest(_, _)
nlargest(n, rows) ==
    IF n = 0 \/ rows = <<>> THEN <<>>
    ELSE LET i == FirstLargest(rows)
         IN  <<rows[i]>> \o nlargest(n - 1, SubSeq(rows, 1, i - 1) \o SubSeq(rows, i + 1, Len(rows)))

\* dropna(subset=["rating"])
dropna_rating(rows) == SelectSeq(rows, LAMBDA r : ~r.rating.none)

\* Line 172, the rating column of top_rated.
top_rated(f) == [i \in 1..Len(nlargest(TopN, dropna_rating(f))) |->
                    nlargest(TopN, dropna_rating(f))[i].rating.val]

\* Line 179: value_counts() of the genre column (fewer than 20 genres).
genre_counts(f) ==
    {<<g, Cardinality({i \in 1..Len(f) : f[i].genre = Str(g)})>> :
        g \in {f[i].genre.text : i \in {j \in 1..Len(f) : ~f[j].genre.isna}}}

\* Line 186.
scatter_df(f) == [i \in 1..Len(dropna_rating(f)) |->
                    <<dropna_rating(f)[i].votes_num, dropna_rating(f)[i].rating.val>>]

(***************************************************************************)
(* Tables and widget values the specifications draw from.                  *)
(***************************************************************************)
Row(g, r, v, d) == [genre |-> g, rating |-> r, votes |-> v, duration |-> d]

War == <<"W", "a", "r">>

ScifiWar == <<"S", "c", "i", "/", "w", "a", "r">>

GenreCells == {NA, Str(War), Str(ScifiWar)}

RatingCells ==
    {NA, Str(<<"N", "/", "A">>), Str(<<"0">>), Str(<<"7", ".", "9">>),
     Str(<<"8", ".", "0">>), Str(<<" ", "9", ".", "1">>)}

VotesCells == {Str(<<"1", ",", "2", "0", "0">>), Str(<<"3", "K">>), Str(<<"N", "/", "A">>)}

RuntimeCells ==
    {NA, Str(<<"1", "h", " ", "5", "9", "m">>), Str(<<"2", "h">>), Str(<<"3", "h">>),
     Str(<<"3", "h", " ", "1", "m">>)}

AllRows == {Row(g, r, v, d) : g \in GenreCells, r \in RatingCells,
                              v \in VotesCells, d \in RuntimeCells}

\* The rows of the multi-row tables.
Row1 == Row(Str(War), NA, Str(<<"N", "/", "A">>), NA)

Row2 == Row(Str(War), Str(<<"7", ".", "9">>), Str(<<"1", ",", "2", "0", "0">>),
            Str(<<"1", "h", " ", "5", "9", "m">>))

Row3 == Row(Str(ScifiWar), Str(<<"8", ".", "0">>), Str(<<"3", "K">>), Str(<<"2", "h">>))

Row4 == Row(NA, Str(<<" ", "9", ".", "1">>), Str(<<"3", "K">>), Str(<<"3", "h", " ", "1", "m">>))

Row5 == Row(Str(War), Str(<<"N", "/", "A">>), Str(<<"1", ",", "2", "0", "0">>), Str(<<"3", "h">>))

\* A row whose votes cell makes votes_to_int raise.
RowSup == Row(Str(War), Str(<<"8", ".", "0">>), Str(<<"1", "2", "sup2">>), Str(<<"2", "h">>))

Catalog == {Row1, Row2, Row3, Row4, Row5}

\* The specification's scenario: ratings [undefined, 7.9, 8.0, 9.1].
ScenarioTable == <<Row1, Row2, Row3, Row4>>

\* The tables of the filter specification: every one-row table, every table
\* of at most MaxRows catalog rows, and the scenario.
Tables ==
    {<<r>> : r \in AllRows}
        \cup UNION {[1..k -> Catalog] : k \in 0..MaxRows}
        \cup {ScenarioTable}

\* The tables of the session specification, the empty one included.
SessionTables == {<<>>, <<Row2, Row3, Row1>>, <<RowSup>>}

\* Line 137-138: "All" and the distinct non-null genres.
GenreOptions(d) == {All} \cup {d[i].genre.text : i \in {j \in 1..Len(d) : ~d[j].genre.isna}}

DurationOptions == {"All", "< 2 hrs", "2-3 hrs", "> 3 hrs"}

\* Slider values (tenths, of 0..100) and vote thresholds the filter
\* specification tries.
Thresholds == {0, 1, 60, 79, 80, 81, 91, 100}

VoteThresholds == {0, 1200, 3001}

Widgets(d, ratings, votes) ==
    {[genre |-> g, min_rating |-> t, min_votes |-> v, duration |-> c] :
        g \in GenreOptions(d), t \in ratings, v \in votes, c \in DurationOptions}

AllWidgets(d) == Widgets(d, Thresholds, VoteThresholds)

\* The widget values of the session specification: the defaults (6.0 and 0)
\* and one other value each.
SessionWidgets(d) == Widgets(d, {60, 0}, {0, 3000})

(***************************************************************************)
(* The script, block by block.                                             *)
(***************************************************************************)
InfoSql == "info: Loaded data from SQL database."

WarnDb == "warning: Database read failed. Falling back to CSV."

ErrorNoCsv == "error: CSV fallback not found"

InfoCsv == "info: Loaded data from CSV fallback."

ErrorNoData == "error: No data available to display."

ErrorNoCredentials == "error: No DB credentials configured."

SuccessQuery == "success: Query executed. Showing results:"

ErrorQuery == "error: Query execution failed"

Cached(rows, m) == [none |-> FALSE, df |-> rows, msgs |-> m]

\* load_data is entered (no cache entry yet).
LoadMiss == pc = "load" /\ cache.none

\* Line 37 raises: create_engine fails (no driver, a malformed URL), outside
\* any try.
Load_EngineError ==
    /\ LoadMiss
    /\ engine = "raises"
    /\ steps' = <<"get_engine">>
    /\ pc' = "crashed"
    /\ UNCHANGED <<engine, csv, cache, df, msgs, widgets, filtered, charts, arg, ret>>

\* Lines 38-42: the table is read.
Load_Sql ==
    /\ LoadMiss
    /\ engine = "ok"
    /\ \E rows \in SessionTables :
          /\ df' = rows
          /\ cache' = Cached(rows, <<InfoSql>>)
    /\ msgs' = <<InfoSql>>
    /\ steps' = <<"get_engine", "read_sql">>
    /\ pc' = "check_empty"
    /\ UNCHANGED <<engine, csv, widgets, filtered, charts, arg, ret>>

\* Line 40 raises something that is no SQLAlchemyError: line 43 lets it pass.
Load_SqlUncaught ==
    /\ LoadMiss
    /\ engine = "ok"
    /\ steps' = <<"get_engine", "read_sql">>
    /\ pc' = "crashed"
    /\ UNCHANGED <<engine, csv, cache, df, msgs, widgets, filtered, charts, arg, ret>>

\* What precedes line 45: no engine (line 38), or line 40 raised an
\* SQLAlchemyError and line 44 warned.
BeforeCsvSteps == IF engine = "none" THEN <<"get_engine">> ELSE <<"get_engine", "read_sql">>

BeforeCsvMsgs == IF engine = "none" THEN <<>> ELSE <<WarnDb>>

\* Lines 46-48.
Load_CsvMissing ==
    /\ LoadMiss
    /\ engine \in {"none", "ok"}
    /\ csv = "absent"
    /\ df' = <<>>
    /\ msgs' = Append(BeforeCsvMsgs, ErrorNoCsv)
    /\ cache' = Cached(<<>>, Append(BeforeCsvMsgs, ErrorNoCsv))
    /\ steps' = Append(BeforeCsvSteps, "exists")
    /\ pc' = "check_empty"
    /\ UNCHANGED <<engine, csv, widgets, filtered, charts, arg, ret>>

\* Lines 49-51.
Load_Csv ==
    /\ LoadMiss
    /\ engine \in {"none", "ok"}
    /\ csv = "ok"
    /\ \E rows \in SessionTables :
          /\ df' = rows
          /\ cache' = Cached(rows, Append(BeforeCsvMsgs, InfoCsv))
    /\ msgs' = Append(BeforeCsvMsgs, InfoCsv)
    /\ steps' = BeforeCsvSteps \o <<"exists", "read_csv">>
    /\ pc' = "check_empty"
    /\ UNCHANGED <<engine, csv, widgets, filtered, charts, arg, ret>>

\* Line 49 raises (an empty file, bytes that are not UTF-8).
Load_CsvUnreadable ==
    /\ LoadMiss
    /\ engine \in {"none", "ok"}
    /\ csv = "unreadable"
    /\ msgs' = BeforeCsvMsgs
    /\ steps' = BeforeCsvSteps \o <<"exists", "read_csv">>
    /\ pc' = "crashed"
    /\ UNCHANGED <<engine, csv, cache, df, widgets, filtered, charts, arg, ret>>

\* Line 35: a later run gets a copy of the cached frame, its messages replayed.
Load_Cached ==
    /\ pc = "load"
    /\ ~cache.none
    /\ df' = cache.df
    /\ msgs' = cache.msgs
    /\ steps' = <<"cached">>
    /\ pc' = "check_empty"
    /\ UNCHANGED <<engine, csv, cache, widgets, filtered, charts, arg, ret>>

\* Lines 56-58 without st.stop(): the error is shown and the script goes on.
CheckEmpty_NoStop ==
    /\ pc = "check_empty"
    /\ msgs' = IF df = <<>> THEN Append(msgs, ErrorNoData) ELSE msgs
    /\ pc' = "clean"
    /\ UNCHANGED <<engine, csv, cache, df, steps, widgets, filtered, charts, arg, ret>>

\* Lines 56-58.
CheckEmpty ==
    /\ pc = "check_empty"
    /\ IF df = <<>>
       THEN msgs' = Append(msgs, ErrorNoData) /\ pc' = "stopped"
       ELSE msgs' = msgs /\ pc' = "clean"
    /\ UNCHANGED <<engine, csv, cache, df, steps, widgets, filtered, charts, arg, ret>>

\* Lines 60-105.
Clean ==
    /\ pc = "clean"
    /\ steps' = Append(steps, "clean")
    /\ IF CleanRaises(df)
       THEN df' = df /\ pc' = "crashed"
       ELSE df' = clean(df) /\ pc' = "query"
    /\ UNCHANGED <<engine, csv, cache, msgs, widgets, filtered, charts, arg, ret>>

\* Line 118: the button was not pressed in this run.
Query_NotRun ==
    /\ pc = "query"
    /\ pc' = "filters"
    /\ UNCHANGED <<engine, csv, cache, df, msgs, steps, widgets, filtered, charts, arg, ret>>

\* Lines 119-121.  (get_engine cannot raise here: line 37 would have.)
Query_NoEngine ==
    /\ pc = "query"
    /\ engine = "none"
    /\ msgs' = Append(msgs, ErrorNoCredentials)
    /\ steps' = Append(steps, "query")
    /\ pc' = "filters"
    /\ UNCHANGED <<engine, csv, cache, df, widgets, filtered, charts, arg, ret>>

\* Lines 123-127.
Query_Ok ==
    /\ pc = "query"
    /\ engine = "ok"
    /\ msgs' = Append(msgs, SuccessQuery)
    /\ steps' = Append(steps, "query")
    /\ pc' = "filters"
    /\ UNCHANGED <<engine, csv, cache, df, widgets, filtered, charts, arg, ret>>

\* Lines 128-129 followed by st.stop(): the failed query ends the run.
Query_Failed_Stops ==
    /\ pc = "query"
    /\ engine = "ok"
    /\ msgs' = Append(msgs, ErrorQuery)
    /\ steps' = Append(steps, "query")
    /\ pc' = "stopped"
    /\ UNCHANGED <<engine, csv, cache, df, widgets, filtered, charts, arg, ret>>

\* Lines 128-129: connect or read_sql raised.
Query_Failed ==
    /\ pc = "query"
    /\ engine = "ok"
    /\ msgs' = Append(msgs, ErrorQuery)
    /\ steps' = Append(steps, "query")
    /\ pc' = "filters"
    /\ UNCHANGED <<engine, csv, cache, df, widgets, filtered, charts, arg, ret>>

\* Lines 131-165, the widgets' values drawn from W.
FiltersOver(W) ==
    /\ pc = "filters"
    /\ \E w \in W :
          /\ widgets' = w
          /\ filtered' = apply_filters(df, w)
    /\ steps' = Append(steps, "filters")
    /\ pc' = "charts"
    /\ UNCHANGED <<engine, csv, cache, df, msgs, charts, arg, ret>>

Filters == FiltersOver(SessionWidgets(df))

\* Lines 167-196, the scatter chart drawn (or skipped for want of ratings).
Charts ==
    /\ pc = "charts"
    /\ charts' = [top_rated    |-> top_rated(filtered),
                  genre_counts |-> genre_counts(filtered),
                  scatter      |-> scatter_df(filtered)]
    /\ steps' = Append(steps, "charts")
    /\ pc' = "done"
    /\ UNCHANGED <<engine, csv, cache, df, msgs, widgets, filtered, arg, ret>>

\* Line 191 names st.altair, which a Streamlit build need not have: the
\* scatter chart, reached when some rating is defined, raises AttributeError.
Charts_AttributeError ==
    /\ pc = "charts"
    /\ scatter_df(filtered) # <<>>
    /\ charts' = [top_rated    |-> top_rated(filtered),
                  genre_counts |-> genre_counts(filtered),
                  scatter      |-> <<>>]
    /\ steps' = Append(steps, "charts")
    /\ pc' = "crashed"
    /\ UNCHANGED <<engine, csv, cache, df, msgs, widgets, filtered, arg, ret>>

\* The next interaction runs the script again from the top.
Rerun ==
    /\ pc \in {"done", "stopped", "crashed"}
    /\ pc' = "load"
    /\ df' = <<>>
    /\ msgs' = <<>>
    /\ steps' = <<>>
    /\ widgets' = NoWidgets
    /\ filtered' = <<>>
    /\ charts' = NoCharts
    /\ UNCHANGED <<engine, csv, cache, arg, ret>>

Init ==
    /\ pc = "load"
    /\ engine \in {"none", "ok", "raises"}
    /\ csv \in {"absent", "ok", "unreadable"}
    /\ cache = NoCache
    /\ df = <<>>
    /\ msgs = <<>>
    /\ steps = <<>>
    /\ widgets = NoWidgets
    /\ filtered = <<>>
    /\ charts = NoCharts
    /\ arg = NA
    /\ ret = None

Next ==
    \/ Load_EngineError
    \/ Load_Sql
    \/ Load_SqlUncaught
    \/ Load_CsvMissing
    \/ Load_Csv
    \/ Load_CsvUnreadable
    \/ Load_Cached
    \/ CheckEmpty
    \/ Clean
    \/ Query_NotRun
    \/ Query_NoEngine
    \/ Query_Ok
    \/ Query_Failed
    \/ Filters
    \/ Charts
    \/ Charts_AttributeError
    \/ Rerun

Spec == Init /\ [][Next]_vars

(***************************************************************************)
(* SpecFilter: the script from the cleaning on, for every table of Tables  *)
(* as the loaded frame and every widget setting of AllWidgets.             *)
(***************************************************************************)
InitFilter ==
    /\ pc = "clean"
    /\ engine = "none"
    /\ csv = "ok"
    /\ df \in Tables
    /\ cache = Cached(df, <<InfoCsv>>)
    /\ msgs = <<InfoCsv>>
    /\ steps = <<"get_engine", "exists", "read_csv">>
    /\ widgets = NoWidgets
    /\ filtered = <<>>
    /\ charts = NoCharts
    /\ arg = NA
    /\ ret = None

FiltersAll == FiltersOver(AllWidgets(df))

NextFilter == Clean \/ Query_NotRun \/ FiltersAll

SpecFilter == InitFilter /\ [][NextFilter]_vars

(***************************************************************************)
(* Claims about the filters, checked under SpecFilter.  In a state with    *)
(* pc = "charts" the filter block has just run: df is the cleaned frame,   *)
(* widgets the settings and filtered the result.                           *)
(***************************************************************************)
\* The settings that switch the other three filters off.
OnlyRatingActive == widgets.genre = All /\ widgets.min_votes = 0 /\ widgets.duration = "All"

OnlyDurationActive == widgets.genre = All /\ widgets.min_votes = 0 /\ widgets.min_rating = 0

\* Rating x (hundredths) is defined and at least the slider value t (tenths).
DefinedAtLeast(x, t) == ~x.none /\ x.val * SliderUnit >= t * RatingUnit

RatingsOf(f) == [i \in 1..Len(f) |-> f[i].rating]

\* C3 as stated: for every threshold, t = 0 included, a record is kept only
\* if its rating is defined and >= t.
C3_KeptOnlyIfRatingDefined ==
    pc = "charts" =>
        \A i \in 1..Len(filtered) : DefinedAtLeast(filtered[i].rating, widgets.min_rating)

\* C3 as amended: a record is kept only if its rating is defined and >= t,
\* or t = 0 and its rating is missing (a missing rating counts as 0); with
\* the other filters off, exactly those records are kept; a missing rating
\* never passes a positive threshold; ratings [undefined, 7.9, 8.0, 9.1]
\* with t = 8.0 keep exactly [8.0, 9.1].
C3_KeptOnlyIfRatingAtLeast ==
    pc = "charts" =>
        LET t       == widgets.min_rating
            keep(r) == DefinedAtLeast(r.rating, t) \/ (t = 0 /\ r.rating.none)
        IN  /\ \A i \in 1..Len(filtered) : keep(filtered[i])
            /\ t > 0 => \A i \in 1..Len(filtered) : ~filtered[i].rating.none
            /\ OnlyRatingActive => filtered = SelectSeq(df, keep)
            /\ (OnlyRatingActive /\ t = 80 /\ RatingsOf(df) = <<None, Some(790), Some(800), Some(910)>>)
                  => RatingsOf(filtered) = <<Some(800), Some(910)>>

\* C3's witness: the scenario has been filtered with t = 8.0.
C3_Witness ==
    /\ pc = "charts"
    /\ OnlyRatingActive
    /\ widgets.min_rating = 80
    /\ RatingsOf(df) = <<None, Some(790), Some(800), Some(910)>>
    /\ RatingsOf(filtered) = <<Some(800), Some(910)>>

Buckets == {"< 2 hrs", "2-3 hrs", "> 3 hrs"}

InBucket(m, c) ==
    CASE c = "< 2 hrs" -> m < 120
      [] c = "2-3 hrs" -> 120 <= m /\ m <= 180
      [] c = "> 3 hrs" -> m > 180

\* C6: under a non-"All" duration choice a record is kept only if its
\* duration_min is defined and lies in the bucket (below 120, 120 to 180,
\* above 180); with the other filters off exactly those are kept; a record
\* of undefined duration is kept by no bucket, one of defined duration by
\* exactly one.
C6_DurationBuckets ==
    pc = "charts" =>
        LET c       == widgets.duration
            keep(r) == ~r.duration_min.none /\ InBucket(r.duration_min.val, c)
        IN  /\ c # "All" => \A i \in 1..Len(filtered) : keep(filtered[i])
            /\ (c # "All" /\ OnlyDurationActive) => filtered = SelectSeq(df, keep)
            /\ \A i \in 1..Len(df) :
                  Cardinality({b \in Buckets : filter_duration(<<df[i]>>, b) = <<df[i]>>})
                      = IF df[i].duration_min.none THEN 0 ELSE 1

\* C6's witness: the middle bucket has kept a record of exactly 180 minutes
\* and dropped another record.
C6_Witness ==
    /\ pc = "charts"
    /\ widgets.duration = "2-3 hrs"
    /\ OnlyDurationActive
    /\ \E i \in 1..Len(filtered) : filtered[i].duration_min = Some(180)
    /\ Len(filtered) < Len(df)

FilterNames == {"genre", "rating", "votes", "duration"}

\* One filter of the block, by name.
FilterStep(name, f, w) ==
    CASE name = "genre"    -> filter_genre(f, w.genre)
      [] name = "rating"   -> filter_rating(f, w.min_rating)
      [] name = "votes"    -> filter_votes(f, w.min_votes)
      [] name = "duration" -> filter_duration(f, w.duration)

\* The four filters applied to f in the order `order`.
RECURSIVE ApplyInOrder(_, _, _)
ApplyInOrder(order, f, w) ==
    IF order = <<>> THEN f
    ELSE ApplyInOrder(Tail(order), FilterStep(Head(order), f, w), w)

Orders == {o \in [1..4 -> FilterNames] : \A i, j \in 1..4 : o[i] = o[j] => i = j}

\* C10: whatever the order the four predicates are applied in, the result
\* is the one the script computes.
C10_FilterOrderIrrelevant ==
    pc = "charts" => \A o \in Orders : ApplyInOrder(o, df, widgets) = filtered

\* C10's witness: all four filters are active, some record is kept and some
\* record is dropped.
C10_Witness ==
    /\ pc = "charts"
    /\ widgets.genre # All
    /\ widgets.min_rating > 0
    /\ widgets.min_votes > 0
    /\ widgets.duration # "All"
    /\ filtered # <<>>
    /\ Len(filtered) < Len(df)

(***************************************************************************)
(* Claims about the session, checked under Spec.                           *)
(***************************************************************************)
InSeq(x, s) == \E i \in 1..Len(s) : s[i] = x

\* This run executed load_data itself (no cache hit) and got no table from
\* the store.
StoreGaveNothing == steps # <<>> /\ Head(steps) = "get_engine" /\ ~InSeq(InfoSql, msgs)

\* C1: with credentials configured, any failure while building the engine
\* or reading from the store results in a warning followed by the CSV
\* fallback being attempted; none ends the run before that.
C1_StoreFailureFallsBack ==
    (engine # "none" /\ StoreGaveNothing)
        => InSeq(WarnDb, msgs) /\ InSeq("exists", steps)

LaterBlocks == {"clean", "query", "filters", "charts"}

\* C7: when the store is not configured or gave nothing and the fallback
\* file is absent, no cleaning, query, filter or chart block runs; unless
\* the store's failure itself ended the run, load_data yields an empty
\* frame, reported missing, and the run stops at line 58.
C7_EmptyLoadHalts ==
    (csv = "absent" /\ steps # <<>> /\ ~InSeq(InfoSql, msgs)) =>
        /\ \A i \in 1..Len(steps) : steps[i] \notin LaterBlocks
        /\ pc \in {"check_empty", "stopped", "crashed"}
        /\ widgets = NoWidgets /\ filtered = <<>> /\ charts = NoCharts
        /\ (engine = "none" \/ InSeq(WarnDb, msgs)) =>
              /\ df = <<>>
              /\ InSeq(ErrorNoCsv, msgs)
              /\ pc \in {"check_empty", "stopped"}
        /\ pc = "stopped" => Last(msgs) = ErrorNoData

\* C7's witness: the store failed, the file is absent, the run has stopped.
C7_Witness ==
    /\ pc = "stopped"
    /\ csv = "absent"
    /\ engine = "ok"
    /\ msgs = <<WarnDb, ErrorNoCsv, ErrorNoData>>
    /\ df = <<>>

\* C8: a failed ad-hoc query is reported once and ends nothing: the script
\* goes on to the filters, df is still the cleaned copy of what load_data
\* returned, and the filters and charts are what they are without a query:
\* functions of that frame and of the widgets alone.
C8_FailedQueryIsContained ==
    InSeq(ErrorQuery, msgs) =>
        /\ Last(steps) = "query" => pc = "filters"
        /\ msgs = Append(cache.msgs, ErrorQuery)
        /\ ~cache.none /\ df = clean(cache.df)
        /\ pc \in {"charts", "done", "crashed"}
              => filtered = apply_filters(clean(cache.df), widgets)
        /\ pc = "done"
              => charts = [top_rated    |-> top_rated(filtered),
                           genre_counts |-> genre_counts(filtered),
                           scatter      |-> scatter_df(filtered)]

\* C8's witness: a run whose query failed has filtered and charted records.
C8_Witness ==
    /\ pc = "done"
    /\ InSeq(ErrorQuery, msgs)
    /\ filtered # <<>>
    /\ charts.top_rated # <<>>

====
